---- MODULE Spec2Model ----
(***************************************************************************)
(* Model of src/src/index.js: a Cloudflare Worker that stamps the README   *)
(* of every repository of an account with a "this week" line.              *)
(*                                                                         *)
(* Strings are sequences of UTF-16 code units (integers), so that          *)
(* split/join/startsWith/trim and the UTF-8 + base64 codecs are computed   *)
(* as the code computes them.  A Date is the number of whole days since    *)
(* 1970-01-01 UTC (the code only reads UTC calendar fields).               *)
(***************************************************************************)
EXTENDS Integers, Sequences, FiniteSets, TLC

(***************************************************************************)
(* Characters                                                              *)
(***************************************************************************)
\* "\n"
LF == 10
\* "\r"
CR == 13
\* " "
SP == 32
\* "0", the first digit
ZERO == 48
\* "-"
DASH == 45
\* "="
PAD == 61

\* const STAMP_PREFIX = "本周记录:"
STAMP_PREFIX == <<26412, 21608, 35760, 24405, 58>>

\* White space and line terminators as String.prototype.trim() removes them
IsWhiteSpace(c) ==
    \/ c \in {9, 10, 11, 12, 13, 32, 160, 5760, 8232, 8233, 8239, 8287, 12288, 65279}
    \/ c \in 8192..8202

(***************************************************************************)
(* String primitives used by applyStamp                                    *)
(***************************************************************************)
RECURSIVE ReplaceCRLF(_)
\* content.replace(/\r\n/g, "\n")
ReplaceCRLF(s) ==
    IF Len(s) = 0 THEN <<>>
    ELSE IF Len(s) >= 2 /\ s[1] = CR /\ s[2] = LF
         THEN <<LF>> \o ReplaceCRLF(SubSeq(s, 3, Len(s)))
         ELSE <<s[1]>> \o ReplaceCRLF(Tail(s))

RECURSIVE Split(_, _)
\* s.split(sep) for a one-character separator: never an empty array
Split(s, sep) ==
    IF \A k \in 1..Len(s) : s[k] # sep THEN <<s>>
    ELSE LET k == CHOOSE j \in 1..Len(s) :
                     s[j] = sep /\ \A h \in 1..(j - 1) : s[h] # sep
         IN  <<SubSeq(s, 1, k - 1)>> \o Split(SubSeq(s, k + 1, Len(s)), sep)

RECURSIVE Join(_, _)
\* lines.join(sep)
Join(lines, sep) ==
    IF Len(lines) = 0 THEN <<>>
    ELSE IF Len(lines) = 1 THEN lines[1]
    ELSE lines[1] \o <<sep>> \o Join(Tail(lines), sep)

\* line.trim() === ""
TrimIsEmpty(line) == \A k \in 1..Len(line) : IsWhiteSpace(line[k])

\* line.startsWith(prefix)
StartsWith(line, prefix) ==
    /\ Len(line) >= Len(prefix)
    /\ SubSeq(line, 1, Len(prefix)) = prefix

\* the scan back over trailing blank lines left out (a faulty variant)
ScanBackNone(lines, lastIndex) == lastIndex

RECURSIVE ScanBack(_, _)
\* while (lastIndex >= 0 && lines[lastIndex].trim() === "") lastIndex--;
\* indices are 1-based here, so 0 stands for the code's -1
ScanBack(lines, lastIndex) ==
    IF lastIndex >= 1 /\ TrimIsEmpty(lines[lastIndex])
    THEN ScanBack(lines, lastIndex - 1)
    ELSE lastIndex

\* if (lastIndex >= 0): the last non-blank line is replaced whatever it is (a faulty variant)
ReplacesAlways(lines, lastIndex) == lastIndex >= 1

\* if (lastIndex >= 0 && lines[lastIndex].startsWith(STAMP_PREFIX))
Replaces(lines, lastIndex) ==
    lastIndex >= 1 /\ StartsWith(lines[lastIndex], STAMP_PREFIX)

\* applyStamp with lines[lastIndex] = stampLine lost: an old marker line stays
\* as it was (a faulty variant)
applyStampKeepsOld(content, stampLine) ==
    LET lines     == Split(ReplaceCRLF(content), LF)
        lastIndex == ScanBack(lines, Len(lines))
        patched   == IF Replaces(lines, lastIndex) THEN lines
                     ELSE Append(lines, stampLine)
    IN  Join(patched, LF) \o <<LF>>

\* function applyStamp(content, stampLine)
applyStamp(content, stampLine) ==
    LET lines == Split(ReplaceCRLF(content), LF)
    IN  IF Len(lines) = 0 THEN stampLine \o <<LF>>
        ELSE LET lastIndex == ScanBack(lines, Len(lines))
                 patched   == IF Replaces(lines, lastIndex)
                              THEN [lines EXCEPT ![lastIndex] = stampLine]
                              ELSE Append(lines, stampLine)
             IN  Join(patched, LF) \o <<LF>>

(***************************************************************************)
(* Date: the UTC calendar fields of a day number, as ECMAScript's Date     *)
(* computes them (DayFromYear, YearFromTime, MonthFromTime, DateFromTime,  *)
(* WeekDay, MakeDay)                                                       *)
(***************************************************************************)
DayFromYear(y) ==
    365 * (y - 1970) + ((y - 1969) \div 4) - ((y - 1901) \div 100) + ((y - 1601) \div 400)

InLeapYear(y) == DayFromYear(y + 1) - DayFromYear(y) = 366

\* Days before the first of month m (0 = January) in year y
DaysBeforeMonth(y, m) ==
    LET cum  == <<0, 31, 59, 90, 120, 151, 181, 212, 243, 273, 304, 334>>
        leap == IF InLeapYear(y) /\ m >= 2 THEN 1 ELSE 0
    IN  cum[m + 1] + leap

\* date.getUTCFullYear()
getUTCFullYear(t) ==
    CHOOSE y \in (1970 + (t \div 366))..(1970 + (t \div 365)) :
        DayFromYear(y) <= t /\ t < DayFromYear(y + 1)

\* date.getUTCMonth(), 0 = January
getUTCMonth(t) ==
    LET y == getUTCFullYear(t)
    IN  CHOOSE m \in 0..11 :
            /\ DayFromYear(y) + DaysBeforeMonth(y, m) <= t
            /\ (m = 11 \/ t < DayFromYear(y) + DaysBeforeMonth(y, m + 1))

\* date.getUTCDate(), 1..31
getUTCDate(t) ==
    LET y == getUTCFullYear(t)
    IN  t - DayFromYear(y) - DaysBeforeMonth(y, getUTCMonth(t)) + 1

\* date.getUTCDay(), 0 = Sunday; 1970-01-01 was a Thursday
getUTCDay(t) == (t + 4) % 7

\* Date.UTC(year, month, date) as a day number; a date past the end of the
\* month runs on into the next one
DateUTC(year, month, date) == DayFromYear(year) + DaysBeforeMonth(year, month) + date - 1

\* d.setUTCDate(n): the day n of d's month, running over the month's end
setUTCDate(t, n) == DateUTC(getUTCFullYear(t), getUTCMonth(t), n)

RECURSIVE ToDigits(_)
\* String(n) for n >= 0
ToDigits(n) ==
    IF n < 10 THEN <<ZERO + n>> ELSE ToDigits(n \div 10) \o <<ZERO + (n % 10)>>

\* String(n).padStart(2, "0")
PadStart2(n) == IF n < 10 THEN <<ZERO>> \o ToDigits(n) ELSE ToDigits(n)

\* Math.ceil(a / b) for a >= 0, b > 0
CeilDiv(a, b) == (a + b - 1) \div b

\* const dayNum = d.getUTCDay(): Sunday left at 0 (a faulty variant)
IsoDayNumRaw(day) == day

\* const dayNum = d.getUTCDay() || 7
IsoDayNum(day) == IF day = 0 THEN 7 ELSE day

\* const diff = 7 - day: a Sunday moves on a whole week (a faulty variant)
DaysToSundayNoMod(day) == 7 - day

\* const diff = (7 - day) % 7
DaysToSunday(day) == (7 - day) % 7

\* function getISOWeek(date)
getISOWeek(date) ==
    LET d0        == DateUTC(getUTCFullYear(date), getUTCMonth(date), getUTCDate(date))
        dayNum    == IsoDayNum(getUTCDay(d0))
        d         == setUTCDate(d0, getUTCDate(d0) + 4 - dayNum)
        isoYear   == getUTCFullYear(d)
        yearStart == DateUTC(isoYear, 0, 1)
        week      == CeilDiv((d - yearStart) + 1, 7)
    IN  [isoYear |-> isoYear, isoWeek |-> week]

\* function calcThisWeekStamp(), with `now` the value of new Date()
calcThisWeekStamp(now) ==
    LET day       == getUTCDay(now)
        diff      == DaysToSunday(day)
        sunday    == setUTCDate(now, getUTCDate(now) + diff)
        year      == getUTCFullYear(sunday)
        month     == PadStart2(getUTCMonth(sunday) + 1)
        date      == PadStart2(getUTCDate(sunday))
        sundayStr == ToDigits(year) \o <<DASH>> \o month \o <<DASH>> \o date
        iso       == getISOWeek(sunday)
        stampText == STAMP_PREFIX \o <<SP>> \o sundayStr \o <<SP, 183, SP>>
                     \o ToDigits(iso.isoYear) \o <<24180, 31532>>
                     \o ToDigits(iso.isoWeek) \o <<21608>>
    IN  [sunday |-> sunday, sundayStr |-> sundayStr, isoYear |-> iso.isoYear,
         isoWeek |-> iso.isoWeek, stampText |-> stampText]

(***************************************************************************)
(* Base64 of UTF-8 (toBase64 / fromBase64)                                 *)
(***************************************************************************)
\* The UTF-8 bytes of one code unit of the Basic Multilingual Plane
Utf8Of(c) ==
    IF c < 128 THEN <<c>>
    ELSE IF c < 2048 THEN <<192 + (c \div 64), 128 + (c % 64)>>
    ELSE <<224 + (c \div 4096), 128 + ((c \div 64) % 64), 128 + (c % 64)>>

RECURSIVE TextEncode(_)
\* new TextEncoder().encode(str)
TextEncode(str) ==
    IF Len(str) = 0 THEN <<>> ELSE Utf8Of(str[1]) \o TextEncode(Tail(str))

RECURSIVE TextDecode(_)
\* new TextDecoder("utf-8").decode(bytes); 65533 is U+FFFD for a malformed byte
TextDecode(b) ==
    IF Len(b) = 0 THEN <<>>
    ELSE IF b[1] < 128 THEN <<b[1]>> \o TextDecode(Tail(b))
    ELSE IF b[1] \in 194..223 /\ Len(b) >= 2 /\ b[2] \in 128..191
         THEN <<(b[1] - 192) * 64 + (b[2] - 128)>> \o TextDecode(SubSeq(b, 3, Len(b)))
    ELSE IF b[1] \in 224..239 /\ Len(b) >= 3 /\ b[2] \in 128..191 /\ b[3] \in 128..191
         THEN <<(b[1] - 224) * 4096 + (b[2] - 128) * 64 + (b[3] - 128)>>
              \o TextDecode(SubSeq(b, 4, Len(b)))
    ELSE <<65533>> \o TextDecode(Tail(b))

\* The character of a 6-bit value in the base64 alphabet A-Z a-z 0-9 + /
B64Char(v) ==
    IF v < 26 THEN 65 + v
    ELSE IF v < 52 THEN 97 + (v - 26)
    ELSE IF v < 62 THEN 48 + (v - 52)
    ELSE IF v = 62 THEN 43 ELSE 47

\* The 6-bit value of a base64 character
B64Val(c) ==
    IF c \in 65..90 THEN c - 65
    ELSE IF c \in 97..122 THEN c - 97 + 26
    ELSE IF c \in 48..57 THEN c - 48 + 52
    ELSE IF c = 43 THEN 62 ELSE 63

RECURSIVE btoa(_)
\* btoa(binary), binary a sequence of bytes
btoa(b) ==
    IF Len(b) = 0 THEN <<>>
    ELSE IF Len(b) = 1
         THEN <<B64Char(b[1] \div 4), B64Char((b[1] % 4) * 16), PAD, PAD>>
    ELSE IF Len(b) = 2
         THEN <<B64Char(b[1] \div 4), B64Char((b[1] % 4) * 16 + (b[2] \div 16)),
                B64Char((b[2] % 16) * 4), PAD>>
    ELSE <<B64Char(b[1] \div 4), B64Char((b[1] % 4) * 16 + (b[2] \div 16)),
           B64Char((b[2] % 16) * 4 + (b[3] \div 64)), B64Char(b[3] % 64)>>
         \o btoa(SubSeq(b, 4, Len(b)))

RECURSIVE atob(_)
\* atob(s) for padded base64 text
atob(s) ==
    IF Len(s) < 4 THEN <<>>
    ELSE LET v1 == B64Val(s[1])
             v2 == B64Val(s[2])
             v3 == B64Val(s[3])
             v4 == B64Val(s[4])
             b1 == v1 * 4 + (v2 \div 16)
             b2 == (v2 % 16) * 16 + (v3 \div 4)
             b3 == (v3 % 4) * 64 + v4
         IN  (IF s[3] = PAD THEN <<b1>>
              ELSE IF s[4] = PAD THEN <<b1, b2>>
              ELSE <<b1, b2, b3>>) \o atob(SubSeq(s, 5, Len(s)))

\* b64.replace(/\n/g, "")
RemoveLF(s) == SelectSeq(s, LAMBDA c : c # LF)

\* function toBase64(str)
toBase64(str) == btoa(TextEncode(str))

\* function fromBase64(b64)
fromBase64(b64) == TextDecode(atob(RemoveLF(b64)))

(***************************************************************************)
(* The path of the README in the URL of the PUT                            *)
(***************************************************************************)
\* The characters encodeURIComponent leaves alone: A-Z a-z 0-9 - _ . ! ~ * ' ( )
IsUnreserved(c) ==
    \/ c \in 65..90
    \/ c \in 97..122
    \/ c \in 48..57
    \/ c \in {45, 95, 46, 33, 126, 42, 39, 40, 41}

\* The upper-case hexadecimal digit of v in 0..15, and the value of a digit
HexDigit(v) == IF v < 10 THEN 48 + v ELSE 55 + v
HexVal(c) == IF c <= 57 THEN c - 48 ELSE IF c <= 70 THEN c - 55 ELSE c - 87

RECURSIVE PercentOf(_)
\* %XX for each byte
PercentOf(bytes) ==
    IF Len(bytes) = 0 THEN <<>>
    ELSE <<37, HexDigit(bytes[1] \div 16), HexDigit(bytes[1] % 16)>>
         \o PercentOf(Tail(bytes))

RECURSIVE encodeURIComponent(_)
\* encodeURIComponent(path)
encodeURIComponent(str) ==
    IF Len(str) = 0 THEN <<>>
    ELSE (IF IsUnreserved(str[1]) THEN <<str[1]>> ELSE PercentOf(Utf8Of(str[1])))
         \o encodeURIComponent(Tail(str))

RECURSIVE UrlBytes(_)
\* remote: the bytes a URL path segment stands for, %XX read as one byte
UrlBytes(seg) ==
    IF Len(seg) = 0 THEN <<>>
    ELSE IF seg[1] = 37 /\ Len(seg) >= 3
         THEN <<HexVal(seg[2]) * 16 + HexVal(seg[3])>> \o UrlBytes(SubSeq(seg, 4, Len(seg)))
    ELSE <<seg[1]>> \o UrlBytes(Tail(seg))

\* remote: the file path named by the last segment of the URL of a PUT
UrlDecode(seg) == TextDecode(UrlBytes(seg))

(***************************************************************************)
(* The worker and the remote service                                       *)
(***************************************************************************)
\* const perPage = 100
perPage == 100

\* The two triggers (scheduled, fetch) may each start a run; runs share nothing
Runs == {1, 2}

\* env.GITHUB_TOKEN when the secret is not configured
Undefined == "<undefined>"
Tokens == {Undefined, "", "ghp_secret"}

\* The instants new Date() may return, as day numbers: Monday 2024-01-01 and
\* Monday 2024-01-08 (two different weeks)
Nows == {19723, 19730}

\* The longest listing of repositories that may each hold a README
MaxRepos == 3
\* The longest listing when two runs race
RaceRepos == 1

VARIABLES
    env,        \* env[r].GITHUB_TOKEN of run r
    pc,         \* where run r is suspended: idle, listing, fetch, put, done, aborted
    now,        \* calcThisWeekStamp: const now, the day new Date() gave run r
    stampInfo,  \* updateAllRepos: const stampInfo
    page,       \* fetchAllRepos: let page
    repos,      \* fetchAllRepos: const repos (then updateAllRepos: const repos)
    idx,        \* updateAllRepos: position of the for loop in repos, from 1
    summary,    \* updateAllRepos: const summary
    readme,     \* updateReadmeForRepo: sha, path, newContent between fetch and PUT
    outcome,    \* how updateAllRepos ended: pending, returned, or what it threw
    account,    \* remote: the repositories /user/repos lists, in order
    store,      \* remote: per repository, every version of its README (base64)
    log,        \* history: the requests run r sent with the status answered
    received,   \* history: the batches the listing requests of run r returned
    pdocs,      \* patcher alone: a document and its successive patches
    plabels     \* patcher alone: the labels applied, plabels[k] giving pdocs[k+1]

runVars == <<env, pc, now, stampInfo, page, repos, idx, summary, readme, outcome,
             account, store, log, received>>
vars == <<env, pc, now, stampInfo, page, repos, idx, summary, readme, outcome,
          account, store, log, received, pdocs, plabels>>

NoStamp == [sunday |-> 0, sundayStr |-> <<>>, isoYear |-> 0, isoWeek |-> 0,
            stampText |-> <<>>]
NoReadme == [sha |-> 0, path |-> <<>>, newContent |-> <<>>]
NoError == [what |-> "", status |-> 0]

\* readmeData.path: "一般是 README.md"
ReadmePath == <<82, 69, 65, 68, 77, 69, 46, 109, 100>>

\* remote: where the README of a repository is: docs/README.md in the
\* repositories of odd number, README.md in the others
PathOf(repo) ==
    IF repo % 2 = 1 THEN <<100, 111, 99, 115, 47>> \o ReadmePath ELSE ReadmePath

\* remote: the versions of the README of a repository, none when it has no README
Versions(repo) == IF repo \in DOMAIN store THEN store[repo] ELSE <<>>

RECURSIVE Wrap60(_)
\* remote: the contents API answers base64 text broken into lines of 60
Wrap60(b64) ==
    IF Len(b64) <= 60 THEN b64 \o <<LF>>
    ELSE SubSeq(b64, 1, 60) \o <<LF>> \o Wrap60(SubSeq(b64, 61, Len(b64)))

\* remote: the items of page p of the listing, pageSize to a page
PageOf(p, pageSize) ==
    SubSeq(account, (p - 1) * pageSize + 1,
           IF p * pageSize < Len(account) THEN p * pageSize ELSE Len(account))

\* remote: a write is taken only when it names the stored version
ShaIsCurrent(repo, sha) == sha = Len(Versions(repo))

\* remote: the answers to GET /repos/{owner}/{repo}/readme: 404 without a README,
\* 200 with one, or a failure; failures are explored for the repositories
\* the store tracks, the others of a long listing always answer 404
GetAnswers(repo) ==
    (IF Len(Versions(repo)) = 0 THEN {404} ELSE {200})
    \cup (IF repo \in DOMAIN store THEN {500} ELSE {})

\* remote: the answers to PUT /repos/{owner}/{repo}/contents/{path}: taken, a
\* conflict on a stale sha, a sha that is not of the file at that path, not
\* found, or another failure
PutAnswers(repo, sha, path) ==
    (IF path # PathOf(repo) THEN {422}
     ELSE IF ShaIsCurrent(repo, sha) THEN {200} ELSE {409}) \cup {404, 500}

\* history: one request as logged: the page (list) or loop position (get, put)
\* n, the per_page asked for (list), the repository, the status answered, and
\* the sha and path returned (get) or received by the remote (put)
Request(op, n, size, repo, status, sha, path) ==
    [op |-> op, n |-> n, size |-> size, repo |-> repo, status |-> status,
     sha |-> sha, path |-> path]

\* if (!token): only an unset secret counts as missing (a faulty variant)
MissingTokenUnsetOnly(token) == token = Undefined

\* if (!token)
MissingToken(token) == token \in {Undefined, ""}

\* if (batch.length <= perPage) break (a faulty variant)
IsLastPageOrFull(batch) == Len(batch) <= perPage

\* if (batch.length < perPage) break
IsLastPage(batch) == Len(batch) < perPage

\* if (readmeRes.status === 404): never taken, a missing README is an error like
\* any other failed answer (a faulty variant)
IsNotFoundNever(status) == FALSE

\* if (readmeRes.status === 404)
IsNotFound(status) == status = 404

\* if (newContent === originalContent)
NoChange(newContent, originalContent) == newContent = originalContent

\* body.sha: the version now stored instead of the one fetched (a faulty variant)
PutShaLatest(r) == Len(Versions(repos[r][idx[r]]))

\* body: JSON.stringify({ message, content: toBase64(newContent), sha })
PutSha(r) == readme[r].sha

\* contents/README.md whatever readmeData.path was (a faulty variant)
PutPathDefault(r) == encodeURIComponent(ReadmePath)

\* `${GITHUB_API}/repos/${owner}/${repo}/contents/${encodeURIComponent(path)}`
PutPath(r) == encodeURIComponent(readme[r].path)

\* the for loop moves to the next repository, or updateAllRepos returns
NextRepo(r) ==
    /\ idx' = [idx EXCEPT ![r] = @ + 1]
    /\ readme' = [readme EXCEPT ![r] = NoReadme]
    /\ IF idx[r] + 1 > Len(repos[r])
       THEN /\ pc' = [pc EXCEPT ![r] = "done"]
            /\ outcome' = [outcome EXCEPT ![r] = "returned"]
       ELSE /\ pc' = [pc EXCEPT ![r] = "fetch"]
            /\ UNCHANGED outcome

\* an error of one repository ends the whole run (a faulty variant: no try/catch)
AbortOnThrow(r, err) ==
    /\ pc' = [pc EXCEPT ![r] = "aborted"]
    /\ outcome' = [outcome EXCEPT ![r] = "threw:repository"]
    /\ readme' = [readme EXCEPT ![r] = NoReadme]
    /\ UNCHANGED <<idx, summary>>

\* an error of one repository makes the loop try it again (a faulty variant)
RetryOnThrow(r, err) ==
    /\ pc' = [pc EXCEPT ![r] = "fetch"]
    /\ readme' = [readme EXCEPT ![r] = NoReadme]
    /\ UNCHANGED <<idx, summary, outcome>>

\* an error of one repository leaves the run suspended for good (a faulty variant)
HangOnThrow(r, err) ==
    /\ pc' = [pc EXCEPT ![r] = "hung"]
    /\ readme' = [readme EXCEPT ![r] = NoReadme]
    /\ UNCHANGED <<idx, summary, outcome>>

\* catch (err) { summary.push({ repo, status: "error", error: String(err) }) }
CatchThrow(r, err) ==
    /\ summary' = [summary EXCEPT ![r] =
           Append(@, [repo |-> repos[r][idx[r]], status |-> "error", error |-> err])]
    /\ NextRepo(r)

\* status: updated ? "skipped" : "updated" (a faulty variant)
PushResultInverted(r, updated) ==
    /\ summary' = [summary EXCEPT ![r] =
           Append(@, [repo |-> repos[r][idx[r]],
                      status |-> IF updated THEN "skipped" ELSE "updated",
                      error |-> NoError])]
    /\ NextRepo(r)

\* summary.push({ repo, status: updated ? "updated" : "skipped" })
PushResult(r, updated) ==
    /\ summary' = [summary EXCEPT ![r] =
           Append(@, [repo |-> repos[r][idx[r]],
                      status |-> IF updated THEN "updated" ELSE "skipped",
                      error |-> NoError])]
    /\ NextRepo(r)

\* a failed page ends the listing with what was fetched so far (a faulty variant)
ListingFailedReturns(r, status) ==
    /\ idx' = [idx EXCEPT ![r] = 1]
    /\ IF Len(repos[r]) = 0
       THEN /\ pc' = [pc EXCEPT ![r] = "done"]
            /\ outcome' = [outcome EXCEPT ![r] = "returned"]
       ELSE /\ pc' = [pc EXCEPT ![r] = "fetch"]
            /\ UNCHANGED outcome
    /\ UNCHANGED <<page, repos, received>>

\* if (!res.ok) throw new Error(`获取仓库失败: ...`): nothing in updateAllRepos catches it
ListingFailed(r, status) ==
    /\ pc' = [pc EXCEPT ![r] = "aborted"]
    /\ outcome' = [outcome EXCEPT ![r] = "threw:listing"]
    /\ UNCHANGED <<page, repos, idx, received>>

\* const stampInfo = calcThisWeekStamp(), new Date() giving day n
ComputeStamp(r, n) ==
    /\ now' = [now EXCEPT ![r] = n]
    /\ stampInfo' = [stampInfo EXCEPT ![r] = calcThisWeekStamp(n)]

\* updateAllRepos up to its first await: the token check and calcThisWeekStamp
Start(r) ==
    /\ pc[r] = "idle"
    /\ IF MissingToken(env[r])
       THEN /\ pc' = [pc EXCEPT ![r] = "aborted"]
            /\ outcome' = [outcome EXCEPT ![r] = "threw:config"]
            /\ UNCHANGED <<now, stampInfo>>
       ELSE /\ \E n \in Nows : ComputeStamp(r, n)
            /\ pc' = [pc EXCEPT ![r] = "listing"]
            /\ UNCHANGED outcome
    /\ UNCHANGED <<env, page, repos, idx, summary, readme, account, store, log,
                   received, pdocs, plabels>>

\* fetchAllRepos: one turn of while (true), the page request and its answer
ListPage(r) ==
    /\ pc[r] = "listing"
    /\ \E status \in {200, 500} :
          /\ log' = [log EXCEPT ![r] = Append(@, Request("list", page[r], perPage, 0, status, 0, <<>>))]
          /\ IF status # 200
             THEN ListingFailed(r, status)
             ELSE LET batch == PageOf(page[r], perPage)
                  IN  /\ repos' = [repos EXCEPT ![r] = @ \o batch]
                      /\ received' = [received EXCEPT ![r] = Append(@, batch)]
                      /\ IF IsLastPage(batch)
                         THEN /\ UNCHANGED page
                              /\ idx' = [idx EXCEPT ![r] = 1]
                              /\ IF Len(repos[r] \o batch) = 0
                                 THEN /\ pc' = [pc EXCEPT ![r] = "done"]
                                      /\ outcome' = [outcome EXCEPT ![r] = "returned"]
                                 ELSE /\ pc' = [pc EXCEPT ![r] = "fetch"]
                                      /\ UNCHANGED outcome
                         ELSE /\ page' = [page EXCEPT ![r] = @ + 1]
                              /\ UNCHANGED <<pc, idx, outcome>>
    /\ UNCHANGED <<env, now, stampInfo, summary, readme, account, store, pdocs, plabels>>

\* updateReadmeForRepo up to the PUT: the GET of the README and what follows it
FetchReadme(r) ==
    /\ pc[r] = "fetch"
    /\ LET repo == repos[r][idx[r]]
           vs   == Versions(repo)
       IN  \E status \in GetAnswers(repo) :
              /\ log' = [log EXCEPT ![r] =
                     Append(@, Request("get", idx[r], 0, repo, status, Len(vs),
                               IF status = 200 THEN PathOf(repo) ELSE <<>>))]
              /\ IF IsNotFound(status) THEN PushResult(r, FALSE)
                 ELSE IF status # 200
                 THEN CatchThrow(r, [what |-> "fetch", status |-> status])
                 ELSE LET readmeData == [sha |-> Len(vs), path |-> PathOf(repo),
                                         content |-> Wrap60(vs[Len(vs)])]
                          originalContent == fromBase64(readmeData.content)
                          newContent == applyStamp(originalContent, stampInfo[r].stampText)
                      IN  IF NoChange(newContent, originalContent)
                          THEN PushResult(r, FALSE)
                          ELSE /\ readme' = [readme EXCEPT ![r] =
                                      [sha |-> readmeData.sha, path |-> readmeData.path,
                                       newContent |-> newContent]]
                               /\ pc' = [pc EXCEPT ![r] = "put"]
                               /\ UNCHANGED <<idx, summary, outcome>>
    /\ UNCHANGED <<env, now, stampInfo, page, repos, account, store, received, pdocs, plabels>>

\* updateReadmeForRepo from the PUT on: the write and its answer
PutReadme(r) ==
    /\ pc[r] = "put"
    /\ LET repo == repos[r][idx[r]]
           sha  == PutSha(r)
           path == UrlDecode(PutPath(r))
       IN  \E status \in PutAnswers(repo, sha, path) :
              /\ log' = [log EXCEPT ![r] =
                     Append(@, Request("put", idx[r], 0, repo, status, sha, path))]
              /\ IF status = 200
                 THEN /\ store' = [store EXCEPT ![repo] =
                             Append(@, toBase64(readme[r].newContent))]
                      /\ PushResult(r, TRUE)
                 ELSE /\ UNCHANGED store
                      /\ CatchThrow(r, [what |-> "update", status |-> status])
    /\ UNCHANGED <<env, now, stampInfo, page, repos, account, received, pdocs, plabels>>

Next == \E r \in Runs : Start(r) \/ ListPage(r) \/ FetchReadme(r) \/ PutReadme(r)

(***************************************************************************)
(* Initial states                                                          *)
(***************************************************************************)
\* stampInfo.stampText of a run started on day n
StampOf(n) == calcThisWeekStamp(n).stampText

\* READMEs found in the repositories: not stamped; stamped for the week of
\* 2024-01-01; stamped the week before, CRLF line ends, no final newline
InitDocs ==
    { <<120, LF>>,
      <<120, LF>> \o StampOf(19723) \o <<LF>>,
      <<120, CR, LF>> \o StampOf(19716) }

\* The README histories a repository may start with: none, or one version
StoredDocs == {<<>>} \cup { <<toBase64(d)>> : d \in InitDocs }

\* The same for a single run: none, not stamped, or stamped for the week of 2024-01-01
SoloStoredDocs ==
    { <<>>, <<toBase64(<<120, LF>>)>>,
      <<toBase64(<<120, LF>> \o StampOf(19723) \o <<LF>>)>> }

Ascending(n) == [k \in 1..n |-> k]
Descending(n) == [k \in 1..n |-> n + 1 - k]
Listings(n) == { Ascending(k) : k \in 0..n } \cup { Descending(k) : k \in 0..n }

\* Listings that fill whole pages; only repository 1 of them may hold a README
LongListings == { Ascending(n) : n \in {perPage - 1, perPage, perPage + 1, 2 * perPage} }

InitRun ==
    /\ pc = [r \in Runs |-> "idle"]
    /\ now = [r \in Runs |-> 0]
    /\ stampInfo = [r \in Runs |-> NoStamp]
    /\ page = [r \in Runs |-> 1]
    /\ repos = [r \in Runs |-> <<>>]
    /\ idx = [r \in Runs |-> 1]
    /\ summary = [r \in Runs |-> <<>>]
    /\ readme = [r \in Runs |-> NoReadme]
    /\ outcome = [r \in Runs |-> "pending"]
    /\ log = [r \in Runs |-> <<>>]
    /\ received = [r \in Runs |-> <<>>]

\* Two uncoordinated runs over a short listing
Init ==
    /\ InitRun
    /\ env \in [Runs -> Tokens]
    /\ account \in Listings(RaceRepos)
    /\ store \in [1..RaceRepos -> StoredDocs]
    /\ pdocs = <<>>
    /\ plabels = <<>>

\* One run (the other trigger has no credential) over a short listing
InitShort ==
    /\ InitRun
    /\ env \in { e \in [Runs -> Tokens] : e[2] = Undefined }
    /\ account \in Listings(MaxRepos)
    /\ store \in [1..MaxRepos -> SoloStoredDocs]
    /\ pdocs = <<>>
    /\ plabels = <<>>

\* One run over a listing that fills whole pages
InitLong ==
    /\ InitRun
    /\ env \in { e \in [Runs -> Tokens] : e[2] = Undefined }
    /\ account \in LongListings
    /\ store \in { st \in [1..MaxRepos -> SoloStoredDocs] :
                      \A k \in 2..MaxRepos : st[k] = <<>> }
    /\ pdocs = <<>>
    /\ plabels = <<>>

\* One run over short and long listings
InitSolo == InitShort \/ InitLong

\* Two runs with the credential over the same two repositories, one of them
\* possibly without a README
InitPair ==
    /\ InitRun
    /\ env = [r \in Runs |-> "ghp_secret"]
    /\ account \in {Ascending(2), Descending(2)}
    /\ store \in { st \in [1..2 -> SoloStoredDocs] : st[1] # <<>> }
    /\ pdocs = <<>>
    /\ plabels = <<>>

Spec == Init /\ [][Next]_vars
SpecSolo == InitSolo /\ [][Next]_vars
SpecShort == InitShort /\ [][Next]_vars
SpecPair == InitPair /\ [][Next]_vars

\* Run r moves on: started, or resumed at the await it is suspended at by the
\* answer to its request. Every step of a run changes where it is suspended,
\* its loop position or its page, and no step changes those of the other run.
Resumes(r) ==
    /\ pc[r] \in {"idle", "listing", "fetch", "put"}
    /\ pc' \in { [pc EXCEPT ![r] = at] :
                    at \in {"listing", "fetch", "put", "done", "aborted"} }
    /\ idx' \in { idx, [idx EXCEPT ![r] = 1], [idx EXCEPT ![r] = @ + 1] }
    /\ page' \in { page, [page EXCEPT ![r] = @ + 1] }
    /\ <<pc'[r], idx'[r], page'[r]>> # <<pc[r], idx[r], page[r]>>

\* One run over short and long listings, every trigger fired and every request
\* answered in the end
SpecLive == InitSolo /\ [][Next]_vars /\ \A r \in Runs : WF_<<pc, idx, page>>(Resumes(r))

(***************************************************************************)
(* The Marker Patcher alone: applyStamp applied in succession              *)
(***************************************************************************)
\* Documents are built of at most MaxPieces of Pieces
MaxPieces == 4
\* The number of successive applications
MaxApply == 2

\* The marker token, a part of it, a letter, a blank, and the line terminators
Pieces == { STAMP_PREFIX, <<26412, 21608>>, <<120>>, <<SP>>, <<LF>>, <<CR>> }

RECURSIVE DocsOf(_)
DocsOf(n) ==
    IF n = 0 THEN { <<>> }
    ELSE LET S == DocsOf(n - 1) IN S \cup { d \o q : d \in S, q \in Pieces }

Labels == { StampOf(n) : n \in Nows }

InitPatch ==
    /\ InitRun
    /\ env = [r \in Runs |-> Undefined]
    /\ account = <<>>
    /\ store = <<>>
    /\ pdocs \in { <<d>> : d \in DocsOf(MaxPieces) }
    /\ plabels = <<>>

\* newContent = applyStamp(originalContent, stampInfo.stampText), the result
\* being the next input
Patch(stampLine) ==
    /\ Len(plabels) < MaxApply
    /\ pdocs' = Append(pdocs, applyStamp(pdocs[Len(pdocs)], stampLine))
    /\ plabels' = Append(plabels, stampLine)
    /\ UNCHANGED runVars

NextPatch == \E stampLine \in Labels : Patch(stampLine)

SpecPatch == InitPatch /\ [][NextPatch]_vars

(***************************************************************************)
(* The week stamp alone: calcThisWeekStamp on every day of a range         *)
(***************************************************************************)
\* The first day of the range, 2019-12-20, and the number of days after it:
\* the range spans the leap years 2020 and 2024 and the 53-week years 2020
\* and 2026
FirstDay == 18250
SpanDays == 2700

Days == FirstDay..(FirstDay + SpanDays)

InitStamp ==
    /\ InitRun
    /\ env = [r \in Runs |-> Undefined]
    /\ account = <<>>
    /\ store = <<>>
    /\ pdocs = <<>>
    /\ plabels = <<>>

\* const stampInfo = calcThisWeekStamp() on day n
StampAt(n) ==
    /\ stampInfo[1] = NoStamp
    /\ ComputeStamp(1, n)
    /\ UNCHANGED <<env, pc, page, repos, idx, summary, readme, outcome, account,
                   store, log, received, pdocs, plabels>>

NextStamp == \E n \in Days : StampAt(n)

SpecStamp == InitStamp /\ [][NextStamp]_vars

(***************************************************************************)
(* Terms of the properties                                                 *)
(***************************************************************************)
\* The lines of a document as the patcher reads them
LinesOf(d) == Split(ReplaceCRLF(d), LF)

IsMarkerLine(line) ==
    Len(line) >= Len(STAMP_PREFIX) /\ \A k \in 1..Len(STAMP_PREFIX) : line[k] = STAMP_PREFIX[k]

IsBlankLine(line) == \A k \in 1..Len(line) : IsWhiteSpace(line[k])

\* The index of the last non-blank line, 0 when every line is blank
LastContentIndex(lines) ==
    IF \A k \in 1..Len(lines) : IsBlankLine(lines[k]) THEN 0
    ELSE CHOOSE k \in 1..Len(lines) :
             ~IsBlankLine(lines[k]) /\ \A j \in (k + 1)..Len(lines) : IsBlankLine(lines[j])

\* The last non-blank line of a document, empty when it has none
LastContentLine(d) ==
    LET lines == LinesOf(d)
    IN  IF LastContentIndex(lines) = 0 THEN <<>> ELSE lines[LastContentIndex(lines)]

MarkerCount(d) == Cardinality({ k \in 1..Len(LinesOf(d)) : IsMarkerLine(LinesOf(d)[k]) })

\* No line but the last non-blank one starts with the marker token
NoStrayMarker(d) ==
    \A k \in 1..Len(LinesOf(d)) :
        IsMarkerLine(LinesOf(d)[k]) => k = LastContentIndex(LinesOf(d))

\* The requests of run r of kind op at page or loop position n
RequestsAt(r, op, n) ==
    { k \in 1..Len(log[r]) : log[r][k].op = op /\ log[r][k].n = n }

\* The text of version v of the README of a repository
TextOf(repo, v) == fromBase64(Versions(repo)[v])

RECURSIVE Concat(_)
Concat(batches) ==
    IF Len(batches) = 0 THEN <<>> ELSE batches[1] \o Concat(Tail(batches))

(***************************************************************************)
(* Properties                                                              *)
(***************************************************************************)

\* C1 (as claimed): when the README a run fetched already has the run's label
\* as its last non-blank line, the run sends no PUT for that repository and
\* reports it skipped.
C1_NoOpDetected ==
    \A r \in Runs : \A k \in 1..Len(log[r]) :
        LET q == log[r][k]
        IN  (q.op = "get" /\ q.status = 200
             /\ LastContentLine(TextOf(q.repo, q.sha)) = stampInfo[r].stampText)
            => /\ RequestsAt(r, "put", q.n) = {}
               /\ (Len(summary[r]) >= q.n => summary[r][q.n].status = "skipped")

\* C2 (as claimed): applying applyStamp twice with the same label gives the
\* result of applying it once, character for character.
C2_Idempotent ==
    \A k \in 1..(Len(plabels) - 1) :
        plabels[k] = plabels[k + 1] => pdocs[k + 2] = pdocs[k + 1]

\* C3 (as claimed): after any non-empty succession of labels applied to any
\* document, exactly one line starts with the marker token.
C3_SingleMarkerAnyInput ==
    Len(plabels) >= 1 => MarkerCount(pdocs[Len(pdocs)]) = 1

\* C3 (amended): the same for a document in which no line other than the last
\* non-blank line starts with the marker token.
C3_SingleMarker ==
    (Len(plabels) >= 1 /\ NoStrayMarker(pdocs[1])) => MarkerCount(pdocs[Len(pdocs)]) = 1

\* C3 witness: a document whose last non-blank line is a marker line, patched
\* twice with two different labels.
C3_Witness ==
    /\ Len(plabels) = 2
    /\ plabels[1] # plabels[2]
    /\ NoStrayMarker(pdocs[1])
    /\ MarkerCount(pdocs[1]) = 1
    /\ Len(LinesOf(pdocs[1])) >= 2

\* C4: every line of the document (read as the patcher reads it, CRLF taken
\* as one line end) is found in the result at its place and unchanged, except
\* the last non-blank line when it starts with the marker token, which is
\* then the label; the result has no fewer lines.
C4_ContentPreserved ==
    \A k \in 1..Len(plabels) :
        LET old  == LinesOf(pdocs[k])
            new  == Split(pdocs[k + 1], LF)
            last == LastContentIndex(old)
        IN  /\ Len(new) >= Len(old)
            /\ \A j \in 1..Len(old) :
                   \/ new[j] = old[j]
                   \/ j = last /\ IsMarkerLine(old[j]) /\ new[j] = plabels[k]

\* C4 witness: a document with a content line, then a marker line as its last
\* non-blank line, has been patched.
C4_Witness ==
    /\ Len(plabels) >= 1
    /\ LET old == LinesOf(pdocs[1])
       IN  /\ LastContentIndex(old) >= 2
           /\ IsMarkerLine(old[LastContentIndex(old)])
           /\ ~IsBlankLine(old[1])
           /\ ~IsMarkerLine(old[1])

\* C5: for every repository a run reports updated, the version its PUT stored
\* has the run's label as its last non-blank line; for every repository with a
\* README it reports skipped, the version it fetched has.
C5_StampedAfterRun ==
    \A r \in Runs : \A k \in 1..Len(summary[r]) :
        /\ summary[r][k].status = "updated" =>
               \E p \in RequestsAt(r, "put", k) :
                   /\ log[r][p].status = 200
                   /\ LastContentLine(TextOf(log[r][p].repo, log[r][p].sha + 1))
                          = stampInfo[r].stampText
        /\ summary[r][k].status = "skipped" =>
               \A g \in RequestsAt(r, "get", k) :
                   log[r][g].status = 200 =>
                       LastContentLine(TextOf(log[r][g].repo, log[r][g].sha))
                           = stampInfo[r].stampText

\* C5 witness: a run has updated a README that carried the stamp of an earlier
\* week, with CRLF line ends.
C5_Witness ==
    \E r \in Runs : \E k \in 1..Len(summary[r]) :
        /\ summary[r][k].status = "updated"
        /\ \E g \in RequestsAt(r, "get", k) :
               /\ CR \in { TextOf(log[r][g].repo, log[r][g].sha)[j] :
                              j \in 1..Len(TextOf(log[r][g].repo, log[r][g].sha)) }
               /\ IsMarkerLine(LastContentLine(TextOf(log[r][g].repo, log[r][g].sha)))

\* The status the summary owes to position k of the listing of run r, from the
\* answers to the requests the run sent for that position alone
OwnStatus(r, k) ==
    LET gets == RequestsAt(r, "get", k)
        puts == RequestsAt(r, "put", k)
    IN  IF \E g \in gets : log[r][g].status \notin {200, 404} THEN "error"
        ELSE IF \E p \in puts : log[r][p].status # 200 THEN "error"
        ELSE IF \E p \in puts : log[r][p].status = 200 THEN "updated"
        ELSE "skipped"

\* C6: whatever fetches and writes fail, a run that got its listing is never
\* aborted; it has one summary entry per repository handled, in listing order,
\* each with the status its own requests give it (error exactly when its
\* fetch or its write failed); and when it returns every listed repository
\* has been fetched and has its entry.
C6_FailureIsolation ==
    \A r \in Runs :
        /\ Len(summary[r]) <= Len(repos[r])
        /\ \A k \in 1..Len(summary[r]) :
               /\ summary[r][k].repo = repos[r][k]
               /\ Cardinality(RequestsAt(r, "get", k)) = 1
               /\ summary[r][k].status = OwnStatus(r, k)
               /\ (summary[r][k].status = "error") = (summary[r][k].error # NoError)
        /\ pc[r] \in {"fetch", "put"} => Len(summary[r]) = idx[r] - 1
        /\ pc[r] = "done" => Len(summary[r]) = Len(repos[r]) /\ outcome[r] = "returned"
        /\ pc[r] = "aborted" =>
               \A k \in 1..Len(log[r]) : log[r][k].op = "list"

\* C6 witness: a run over three repositories has returned; the write of the
\* second was rejected, the first was updated and the third skipped.
C6_Witness ==
    \E r \in Runs :
        /\ pc[r] = "done"
        /\ Len(summary[r]) = 3
        /\ summary[r][1].status = "updated"
        /\ summary[r][2].status = "error"
        /\ summary[r][2].error.what = "update"
        /\ summary[r][3].status = "skipped"

\* C7: when both runs fetched the same version of a README and both sent a
\* write, at most one write was taken; a run whose write was not taken reports
\* error; and once one was taken the repository holds exactly one more
\* version, the fetched text patched once with the label of the run that won.
C7_RacingWrites ==
    \A g1 \in 1..Len(log[1]) : \A g2 \in 1..Len(log[2]) :
        LET a == log[1][g1]
            b == log[2][g2]
            p1 == RequestsAt(1, "put", a.n)
            p2 == RequestsAt(2, "put", b.n)
            Taken(r, ps) == \E p \in ps : log[r][p].status = 200
        IN  (a.op = "get" /\ b.op = "get" /\ a.status = 200 /\ b.status = 200
             /\ a.repo = b.repo /\ a.sha = b.sha /\ p1 # {} /\ p2 # {})
            => /\ ~(Taken(1, p1) /\ Taken(2, p2))
               /\ ~Taken(1, p1) => summary[1][a.n].status = "error"
               /\ ~Taken(2, p2) => summary[2][b.n].status = "error"
               /\ \A r \in Runs :
                      Taken(r, IF r = 1 THEN p1 ELSE p2) =>
                          /\ Len(Versions(a.repo)) = a.sha + 1
                          /\ TextOf(a.repo, a.sha + 1)
                                 = applyStamp(TextOf(a.repo, a.sha), stampInfo[r].stampText)

\* C7 witness: both runs fetched the same version and wrote; one write was
\* taken and the other answered 409.
C7_Witness ==
    \E r \in Runs : \E g1 \in 1..Len(log[1]) : \E g2 \in 1..Len(log[2]) :
        /\ log[1][g1].op = "get" /\ log[2][g2].op = "get"
        /\ log[1][g1].status = 200 /\ log[2][g2].status = 200
        /\ log[1][g1].repo = log[2][g2].repo
        /\ log[1][g1].sha = log[2][g2].sha
        /\ \E p \in RequestsAt(r, "put", log[r][IF r = 1 THEN g1 ELSE g2].n) :
               log[r][p].status = 200
        /\ \E p \in RequestsAt(3 - r, "put", log[3 - r][IF r = 1 THEN g2 ELSE g1].n) :
               log[3 - r][p].status = 409

\* The listing requests of run r, in the order sent
ListRequests(r) == SelectSeq(log[r], LAMBDA q : q.op = "list")

\* C8: the listing requests of a run ask for pages 1, 2, 3, ... in order, all
\* with the same page size; every page received before the last was full, so
\* no request follows a short page; and once the listing is over the last
\* page received was short and the repositories are the pages received,
\* concatenated in order.
C8_Pagination ==
    \A r \in Runs :
        LET asked == ListRequests(r)
            got   == received[r]
        IN  /\ \A k \in 1..Len(asked) : asked[k].n = k /\ asked[k].size = perPage
            /\ \A k \in 1..Len(asked) : k < Len(asked) => asked[k].status = 200
            /\ Len(got) = Cardinality({ k \in 1..Len(asked) : asked[k].status = 200 })
            /\ \A k \in 1..Len(got) :
                   (k < Len(got) \/ Len(asked) > Len(got) \/ pc[r] = "listing")
                       => Len(got[k]) = perPage
            /\ pc[r] \in {"fetch", "put", "done"} =>
                   /\ Len(got) >= 1
                   /\ Len(got[Len(got)]) < perPage
                   /\ repos[r] = Concat(got)

\* C8 witness: a listing of two full pages ended on an empty third page.
C8_Witness ==
    \E r \in Runs :
        /\ pc[r] = "done"
        /\ Len(received[r]) = 3
        /\ Len(received[r][2]) = perPage
        /\ received[r][3] = <<>>
        /\ Len(repos[r]) = 2 * perPage

\* C9: once a listing request of a run has failed, the run is aborted by the
\* listing error, has returned nothing, has no summary entry, and has sent no
\* request for a README, neither fetch nor write.
C9_ListingFailureFatal ==
    \A r \in Runs :
        (\E k \in 1..Len(log[r]) : log[r][k].op = "list" /\ log[r][k].status # 200)
        => /\ pc[r] = "aborted"
           /\ outcome[r] = "threw:listing"
           /\ summary[r] = <<>>
           /\ \A k \in 1..Len(log[r]) : log[r][k].op = "list"

\* C9 witness: the second page failed after a full first page was received.
C9_Witness ==
    \E r \in Runs :
        /\ pc[r] = "aborted"
        /\ Len(received[r]) = 1
        /\ Len(repos[r]) = perPage
        /\ Len(log[r]) = 2
        /\ log[r][2].status # 200

\* C10: a run whose credential is absent or empty sends no request at all,
\* and once started is aborted by the configuration error with no summary.
C10_MissingCredentialFatal ==
    \A r \in Runs :
        env[r] \in {Undefined, ""}
        => /\ log[r] = <<>>
           /\ summary[r] = <<>>
           /\ pc[r] \in {"idle", "aborted"}
           /\ pc[r] = "aborted" => outcome[r] = "threw:config"

\* C10 witness: a run with an empty credential has been aborted while the
\* other run, with a credential, went on to send requests.
C10_Witness ==
    \E r \in Runs :
        /\ env[r] = ""
        /\ pc[r] = "aborted"
        /\ log[3 - r] # <<>>

\* C11: when the GET of the README of a repository is answered 404, the run
\* sends no PUT for it, does not throw, and reports it skipped with no error;
\* when the PUT is answered 404, the repository is reported as an error
\* carrying that status.
C11_NotFoundSkipped ==
    \A r \in Runs : \A k \in 1..Len(log[r]) :
        LET q == log[r][k]
        IN  /\ (q.op = "get" /\ q.status = 404) =>
                   /\ RequestsAt(r, "put", q.n) = {}
                   /\ outcome[r] \in {"pending", "returned"}
                   /\ Len(summary[r]) >= q.n
                   /\ summary[r][q.n] = [repo |-> q.repo, status |-> "skipped",
                                         error |-> NoError]
            /\ (q.op = "put" /\ q.status = 404) =>
                   /\ Len(summary[r]) >= q.n
                   /\ summary[r][q.n] = [repo |-> q.repo, status |-> "error",
                                         error |-> [what |-> "update", status |-> 404]]

\* C11 witness: a run has returned after a GET answered 404 for one repository
\* and a PUT answered 404 for another.
C11_Witness ==
    \E r \in Runs :
        /\ pc[r] = "done"
        /\ \E k \in 1..Len(log[r]) : log[r][k].op = "get" /\ log[r][k].status = 404
        /\ \E k \in 1..Len(log[r]) : log[r][k].op = "put" /\ log[r][k].status = 404

(***************************************************************************)
(* The calendar, for the properties of the week stamp                      *)
(***************************************************************************)
\* The day number of the civil date y-m-d (m from 1), counted in 400-year eras
\* from 0000-03-01
DaysFromCivil(y, m, d) ==
    LET yy  == IF m <= 2 THEN y - 1 ELSE y
        era == yy \div 400
        yoe == yy - era * 400
        mp  == IF m > 2 THEN m - 3 ELSE m + 9
        doy == (153 * mp + 2) \div 5 + d - 1
        doe == yoe * 365 + yoe \div 4 - yoe \div 100 + doy
    IN  era * 146097 + doe - 719468

\* The civil year of a day number
CivilYear(t) ==
    CHOOSE y \in 1969..2100 : DaysFromCivil(y, 1, 1) <= t /\ t < DaysFromCivil(y + 1, 1, 1)

\* The day of the week, 0 for Monday
WeekdayFromMonday(t) == (t + 3) % 7

\* ISO 8601: week 1 of a year is the Monday-to-Sunday week holding January 4
Week1Monday(y) ==
    LET jan4 == DaysFromCivil(y, 1, 4) IN jan4 - WeekdayFromMonday(jan4)

\* ISO 8601: the week-numbering year and the week of a day
IsoOf(t) ==
    LET y == CHOOSE yy \in (CivilYear(t) - 1)..(CivilYear(t) + 1) :
                 Week1Monday(yy) <= t /\ t < Week1Monday(yy + 1)
    IN  [isoYear |-> y, isoWeek |-> (t - Week1Monday(y)) \div 7 + 1]

RECURSIVE NumberOf(_)
\* The number written by a string of decimal digits
NumberOf(digits) ==
    IF Len(digits) = 0 THEN 0
    ELSE NumberOf(SubSeq(digits, 1, Len(digits) - 1)) * 10 + (digits[Len(digits)] - ZERO)

\* The day number of a date written YYYY-MM-DD
DayOfText(str) ==
    DaysFromCivil(NumberOf(SubSeq(str, 1, 4)), NumberOf(SubSeq(str, 6, 7)),
                  NumberOf(SubSeq(str, 9, 10)))

\* C12: for every day of the range, isoYear and isoWeek of the stamp are the
\* ISO 8601 week-numbering year and week of the date written in sundayStr,
\* with isoWeek in 1..53; 2024-01-01 gives 2024-01-07 and (2024, 1),
\* 2024-12-31 gives 2025-01-05 and (2025, 1).
C12_IsoWeek ==
    stampInfo[1] # NoStamp =>
        LET st == stampInfo[1]
        IN  /\ Len(st.sundayStr) = 10
            /\ [isoYear |-> st.isoYear, isoWeek |-> st.isoWeek] = IsoOf(DayOfText(st.sundayStr))
            /\ st.isoWeek \in 1..53
            /\ now[1] = DaysFromCivil(2024, 1, 1) =>
                   /\ st.sundayStr = <<50, 48, 50, 52, DASH, 48, 49, DASH, 48, 55>>
                   /\ st.isoYear = 2024 /\ st.isoWeek = 1
            /\ now[1] = DaysFromCivil(2024, 12, 31) =>
                   /\ st.sundayStr = <<50, 48, 50, 53, DASH, 48, 49, DASH, 48, 53>>
                   /\ st.isoYear = 2025 /\ st.isoWeek = 1

\* C12 witness: a stamp of week 53 of 2020, whose Sunday is in 2021.
C12_Witness ==
    /\ stampInfo[1].isoYear = 2020
    /\ stampInfo[1].isoWeek = 53
    /\ CivilYear(DayOfText(stampInfo[1].sundayStr)) = 2021

\* C13: for every day of the range, the date written in sundayStr is a Sunday,
\* is the day itself when that is a Sunday and the next Sunday otherwise (the
\* day plus (7 - weekday) mod 7, weekday counted from Sunday = 0): never
\* before the day and at most 6 days after it.
C13_SundayRule ==
    stampInfo[1] # NoStamp =>
        LET t  == now[1]
            s  == DayOfText(stampInfo[1].sundayStr)
            wd == (WeekdayFromMonday(t) + 1) % 7
        IN  /\ WeekdayFromMonday(s) = 6
            /\ wd = 0 => s = t
            /\ s = t + ((7 - wd) % 7)
            /\ s >= t
            /\ s - t <= 6

\* C13 witness: a stamp computed on a day of December that is not a Sunday,
\* whose Sunday is in January of the next year.
C13_Witness ==
    /\ stampInfo[1] # NoStamp
    /\ WeekdayFromMonday(now[1]) # 6
    /\ CivilYear(DayOfText(stampInfo[1].sundayStr)) = CivilYear(now[1]) + 1

\* C14 (as claimed): a document P + M + "\n", M one line starting with the
\* marker token and P complete lines, patched with the label L, is
\* P + L + "\n": the marker line replaced in place, one trailing newline.
C14_ReplaceCase ==
    \A k \in 1..Len(plabels) :
        LET d     == pdocs[k]
            lines == Split(d, LF)
            n     == Len(lines)
        IN  (/\ n >= 2
             /\ lines[n] = <<>>
             /\ IsMarkerLine(lines[n - 1])
             /\ \A j \in 1..Len(d) : d[j] # CR)
            => pdocs[k + 1] = SubSeq(d, 1, Len(d) - Len(lines[n - 1]) - 1)
                                  \o plabels[k] \o <<LF>>

\* C15 (as claimed): a newline-terminated document d whose last non-blank line
\* does not start with the marker token, patched with the label L, is
\* d + L + "\n": no blank line inserted or removed.
C15_AppendCase ==
    \A k \in 1..Len(plabels) :
        LET d == pdocs[k]
        IN  (/\ Len(d) >= 1
             /\ d[Len(d)] = LF
             /\ \A j \in 1..Len(d) : d[j] # CR
             /\ LastContentIndex(LinesOf(d)) # 0
             /\ ~IsMarkerLine(LastContentLine(d)))
            => pdocs[k + 1] = d \o plabels[k] \o <<LF>>

\* C16 (as claimed): the empty document patched with the label L is L followed
\* by one newline, with no leading blank line.
C16_EmptyDocument ==
    (Len(plabels) >= 1 /\ pdocs[1] = <<>>) => pdocs[2] = plabels[1] \o <<LF>>

C18_SingleAttempt ==
    \A r \in Runs : \A i \in 1..Len(log[r]) : \A j \in (i + 1)..Len(log[r]) :
        (log[r][i].op # "list" /\ log[r][j].op # "list") =>
            /\ log[r][i].n <= log[r][j].n
            /\ log[r][i].n = log[r][j].n =>
                   /\ log[r][i].op = "get"
                   /\ log[r][i].status = 200
                   /\ log[r][j].op = "put"
                   /\ j = i + 1

\* C18 witness: a run has returned whose GET for the first entry failed and
\* whose PUT for the second was answered 409; it sent three requests in all
\* after the listing.
C18_Witness ==
    \E r \in Runs :
        /\ pc[r] = "done"
        /\ Len(log[r]) = 4
        /\ log[r][2].op = "get" /\ log[r][2].status = 500 /\ log[r][2].n = 1
        /\ log[r][3].op = "get" /\ log[r][3].status = 200 /\ log[r][3].n = 2
        /\ log[r][4].op = "put" /\ log[r][4].status = 409 /\ log[r][4].n = 2

\* C19: an entry of the summary of a run is updated exactly when the run sent
\* one PUT for it and the remote took it (the repository then holds the
\* version after the one named); a skipped entry had no PUT sent and carries no
\* error; an error entry had no PUT taken and carries the failed request and
\* its status, a GET answered neither 200 nor 404 or a PUT not taken.
C19_ReportFaithful ==
    \A r \in Runs : \A k \in 1..Len(summary[r]) :
        LET e     == summary[r][k]
            gets  == RequestsAt(r, "get", k)
            puts  == RequestsAt(r, "put", k)
            taken == { p \in puts : log[r][p].status = 200 }
        IN  /\ e.status \in {"updated", "skipped", "error"}
            /\ (e.status = "updated") = (Cardinality(puts) = 1 /\ taken = puts)
            /\ \A p \in taken : Len(Versions(log[r][p].repo)) > log[r][p].sha
            /\ e.status = "skipped" => puts = {} /\ e.error = NoError
            /\ e.status = "error" =>
                   /\ taken = {}
                   /\ e.error # NoError
                   /\ \/ \E g \in gets :
                             /\ log[r][g].status \notin {200, 404}
                             /\ e.error = [what |-> "fetch", status |-> log[r][g].status]
                      \/ \E p \in puts :
                             /\ log[r][p].status # 200
                             /\ e.error = [what |-> "update", status |-> log[r][p].status]

\* C19 witness: a run has returned a summary with an updated entry and an
\* error entry whose PUT was answered 409, the other run having updated that
\* repository.
C19_Witness ==
    \E r \in Runs : \E k \in 1..2 :
        /\ pc[r] = "done"
        /\ Len(summary[r]) = 2
        /\ summary[r][k].status = "updated"
        /\ summary[r][3 - k].status = "error"
        /\ summary[r][3 - k].error = [what |-> "update", status |-> 409]
        /\ \E j \in 1..Len(summary[3 - r]) :
               /\ summary[3 - r][j].repo = summary[r][3 - k].repo
               /\ summary[3 - r][j].status = "updated"

\* C20: with every request answered in the end, every run ends up done or
\* aborted; once there it stays there, with the summary and the outcome it
\* had; a run that is done has returned; and a run is aborted only without a
\* credential, before any request, or right after a listing request that
\* failed.
C20_RunTerminates ==
    /\ \A r \in Runs : <>(pc[r] \in {"done", "aborted"})
    /\ [][\A r \in Runs :
              pc[r] \in {"done", "aborted"} =>
                  /\ pc'[r] = pc[r]
                  /\ outcome'[r] = outcome[r]
                  /\ summary'[r] = summary[r]
                  /\ log'[r] = log[r]]_vars
    /\ [](\A r \in Runs :
              /\ pc[r] = "done" => outcome[r] = "returned"
              /\ pc[r] = "aborted" =>
                     \/ /\ env[r] \in {Undefined, ""}
                        /\ outcome[r] = "threw:config"
                        /\ log[r] = <<>>
                     \/ /\ outcome[r] = "threw:listing"
                        /\ Len(log[r]) >= 1
                        /\ log[r][Len(log[r])].op = "list"
                        /\ log[r][Len(log[r])].status # 200)

\* C20 witness: one run is done after a listing of more than one page, the
\* other aborted for want of a credential.
C20_Witness ==
    /\ pc[1] = "done"
    /\ Len(received[1]) >= 2
    /\ Len(summary[1]) > perPage
    /\ pc[2] = "aborted"

====
